---- MODULE Spec2Model ----
(***************************************************************************)
(* Model of the fixed-capacity ring buffer RingB<T> of src/src/lib.rs.     *)
(*                                                                         *)
(* The buffer is the record b (fields head, tail, size, capacity, items).  *)
(* Every method of the impl block is an operator from the buffer before    *)
(* the call to an Outcome: the buffer after the call, what the call        *)
(* returned, and the items whose ownership ended inside the call.  Items   *)
(* are object identities 1, 2, 3, ...: every call that takes an item is    *)
(* handed a fresh one, as a moved value is in Rust.                        *)
(***************************************************************************)
EXTENDS Integers, Sequences, FiniteSets, TLC

\* Bounds of the exploration.
MaxCap == 3        \* with_capacity(n) is explored for n in 0..MaxCap
MaxItems == 6      \* number of items the caller creates in one run
HistLen == 2       \* number of most recent calls remembered in hist

DEFAULT_BUFFER_CAPACITY == 16

VARIABLES
    b,          \* the RingB value
    debug,      \* TRUE iff the build has debug assertions enabled
    ctor,       \* the constructor call that built b
    hist,       \* the last HistLen calls: op, arg, result, buffer before
    nextItem,   \* identity of the next item the caller creates
    held,       \* items the caller owns (got back from a call)
    discarded,  \* items dropped inside a call of the buffer
    run,        \* the enqueues since the buffer was last empty, and the
                \* dequeues that followed them
    window,     \* the items passed to enqueue since the buffer was last
                \* empty, while no other call stored or removed an item
    overflowed, \* TRUE from an overflow failure until the next dequeue
    fifo        \* an unbounded-index FIFO sequence run side by side with
                \* b, and what the last call returns on it

vars == <<b, debug, ctor, hist, nextItem, held, discarded, run, window,
          overflowed, fifo>>

----------------------------------------------------------------------------
\* Option<T>: None is the empty tuple, Some(x) the one-element tuple.
None == <<>>
Some(x) == <<x>>

\* The items an Option value owns.
Elems(opt) == {opt[i] : i \in 1..Len(opt)}

\* struct RingB<T>
RingB(h, t, s, c, it) ==
    [head |-> h, tail |-> t, size |-> s, capacity |-> c, items |-> it]

\* What a call leaves behind: the buffer, the tag and payload of the value
\* it returned ("Panic" when it unwound instead), and the items it dropped.
Outcome(self, tag, val, dropped) ==
    [self |-> self, tag |-> tag, val |-> val, dropped |-> dropped]

\* Mutant of with_capacity: one slot too many is allocated.
with_capacity_ExtraSlot(n) ==
    RingB(0, 0, 0, n, [i \in 0..n |-> None])

with_capacity(n) ==
    RingB(0, 0, 0, n, [i \in 0..(n - 1) |-> None])

new == with_capacity(DEFAULT_BUFFER_CAPACITY)

capacity(self) == self.capacity

size(self) == self.size

\* Mutant of is_empty: emptiness is read off the indices, which also meet
\* when the buffer is full.
is_empty_HeadMeetsTail(self) == self.head = self.tail

is_empty(self) == self.size = 0

\* Mutant of is_full: the comparison is off by one.
is_full_OffByOne(self) == self.size + 1 = self.capacity

is_full(self) == self.size = self.capacity

\* Mutant of dequeue: head is not advanced after the slot is taken.
dequeue_HeadNotAdvanced(self, dbg) ==
    IF is_empty(self) THEN Outcome(self, "None", None, {})
    ELSE IF self.head \notin DOMAIN self.items
         THEN Outcome(self, "Panic", None, {})
    ELSE LET item == self.items[self.head]
             s1 == [self EXCEPT !.items[self.head] = None]
         IN  IF dbg /\ item = None THEN Outcome(s1, "Panic", None, {})
             ELSE LET s3 == [s1 EXCEPT !.size = s1.size - 1]
                  IN  Outcome(s3, IF item = None THEN "None" ELSE "Some",
                              item, {})

\* Mutant of dequeue: the emptiness test comes after head was advanced.
dequeue_LateEmptyCheck(self, dbg) ==
    IF self.capacity = 0 THEN Outcome(self, "Panic", None, {})
    ELSE LET s0 == [self EXCEPT !.head = (self.head + 1) % self.capacity]
         IN  IF is_empty(s0) THEN Outcome(s0, "None", None, {})
             ELSE LET item == self.items[self.head]
                      s1 == [s0 EXCEPT !.items[self.head] = None]
                      s3 == [s1 EXCEPT !.size = s1.size - 1]
                  IN  IF dbg /\ item = None
                      THEN Outcome(s1, "Panic", None, {})
                      ELSE Outcome(s3,
                                   IF item = None THEN "None" ELSE "Some",
                                   item, {})

\* Mutant of dequeue: size is not decremented.
dequeue_SizeNotDecremented(self, dbg) ==
    IF is_empty(self) THEN Outcome(self, "None", None, {})
    ELSE IF self.head \notin DOMAIN self.items
         THEN Outcome(self, "Panic", None, {})
    ELSE LET item == self.items[self.head]
             s1 == [self EXCEPT !.items[self.head] = None]
         IN  IF dbg /\ item = None THEN Outcome(s1, "Panic", None, {})
             ELSE IF s1.capacity = 0
                  THEN Outcome(s1, "Panic", None, Elems(item))
             ELSE LET s2 == [s1 EXCEPT !.head = (s1.head + 1) % s1.capacity]
                  IN  Outcome(s2, IF item = None THEN "None" ELSE "Some",
                              item, {})

\* Mutant of dequeue: the slot is read but not cleared (a copy instead of
\* take()).
dequeue_SlotNotCleared(self, dbg) ==
    IF is_empty(self) THEN Outcome(self, "None", None, {})
    ELSE IF self.head \notin DOMAIN self.items
         THEN Outcome(self, "Panic", None, {})
    ELSE LET item == self.items[self.head]
         IN  IF dbg /\ item = None THEN Outcome(self, "Panic", None, {})
             ELSE IF self.capacity = 0
                  THEN Outcome(self, "Panic", None, Elems(item))
             ELSE LET s2 == [self EXCEPT
                               !.head = (self.head + 1) % self.capacity]
                      s3 == [s2 EXCEPT !.size = s2.size - 1]
                  IN  Outcome(s3, IF item = None THEN "None" ELSE "Some",
                              item, {})

\* dequeue.  The index self.items[self.head] is bounds-checked and the
\* remainder panics on a zero divisor in every build; debug_assert! only
\* in a debug build.  debug_assert!(self.size > 0) cannot fire: size is
\* unsigned and was found non-zero by the is_empty test above it.
dequeue(self, dbg) ==
    IF is_empty(self) THEN Outcome(self, "None", None, {})
    ELSE IF self.head \notin DOMAIN self.items
         THEN Outcome(self, "Panic", None, {})
    ELSE LET item == self.items[self.head]
             s1 == [self EXCEPT !.items[self.head] = None]
         IN  IF dbg /\ item = None THEN Outcome(s1, "Panic", None, {})
             ELSE IF s1.capacity = 0
                  THEN Outcome(s1, "Panic", None, Elems(item))
             ELSE LET s2 == [s1 EXCEPT !.head = (s1.head + 1) % s1.capacity]
                      s3 == [s2 EXCEPT !.size = s2.size - 1]
                  IN  Outcome(s3, IF item = None THEN "None" ELSE "Some",
                              item, {})

\* Mutant of enqueue: a full buffer is not relieved of its oldest item
\* before the new one is stored.
enqueue_NoEviction(self, item, dbg) ==
    IF self.tail \notin DOMAIN self.items
    THEN Outcome(self, "Panic", None, {item})
    ELSE LET old == Elems(self.items[self.tail])
             s1 == [self EXCEPT !.items[self.tail] = Some(item)]
         IN  IF s1.capacity = 0 THEN Outcome(s1, "Panic", None, old)
             ELSE LET s2 == [s1 EXCEPT !.tail = (s1.tail + 1) % s1.capacity]
                      s3 == [s2 EXCEPT !.size = s2.size + 1]
                  IN  IF dbg /\ ~(s2.size < s2.capacity)
                      THEN Outcome(s2, "Panic", None, old)
                      ELSE Outcome(s3, "Unit", None, old)

\* Mutant of enqueue: tail is advanced without the reduction modulo
\* capacity.
enqueue_TailNotWrapped(self, item, dbg) ==
    LET d == IF is_full(self) THEN dequeue(self, dbg)
             ELSE Outcome(self, "None", None, {})
        s0 == d.self
        ev == d.dropped \cup Elems(d.val)
    IN  IF d.tag = "Panic" THEN Outcome(s0, "Panic", None, ev \cup {item})
        ELSE IF s0.tail \notin DOMAIN s0.items
             THEN Outcome(s0, "Panic", None, ev \cup {item})
        ELSE LET old == Elems(s0.items[s0.tail])
                 s1 == [s0 EXCEPT !.items[s0.tail] = Some(item)]
                 s2 == [s1 EXCEPT !.tail = s1.tail + 1]
                 s3 == [s2 EXCEPT !.size = s2.size + 1]
             IN  IF dbg /\ ~(s2.size < s2.capacity)
                 THEN Outcome(s2, "Panic", None, ev \cup old)
                 ELSE Outcome(s3, "Unit", None, ev \cup old)

\* enqueue.  `let _ = self.dequeue()` drops what dequeue returned; the
\* assignment to the slot drops the slot's previous value; a panic drops
\* the item that was passed in.
enqueue(self, item, dbg) ==
    LET d == IF is_full(self) THEN dequeue(self, dbg)
             ELSE Outcome(self, "None", None, {})
        s0 == d.self
        ev == d.dropped \cup Elems(d.val)
    IN  IF d.tag = "Panic" THEN Outcome(s0, "Panic", None, ev \cup {item})
        ELSE IF s0.tail \notin DOMAIN s0.items
             THEN Outcome(s0, "Panic", None, ev \cup {item})
        ELSE LET old == Elems(s0.items[s0.tail])
                 s1 == [s0 EXCEPT !.items[s0.tail] = Some(item)]
             IN  IF s1.capacity = 0
                 THEN Outcome(s1, "Panic", None, ev \cup old)
                 ELSE LET s2 == [s1 EXCEPT
                                   !.tail = (s1.tail + 1) % s1.capacity]
                          s3 == [s2 EXCEPT !.size = s2.size + 1]
                      IN  IF dbg /\ ~(s2.size < s2.capacity)
                          THEN Outcome(s2, "Panic", None, ev \cup old)
                          ELSE Outcome(s3, "Unit", None, ev \cup old)

\* Mutant of enqueue_or_overflow: the item is stored in the slot at head
\* instead of the slot at tail.
enqueue_or_overflow_StoresAtHead(self, item, dbg) ==
    IF is_full(self) THEN Outcome(self, "Err", None, {item})
    ELSE IF self.head \notin DOMAIN self.items
         THEN Outcome(self, "Panic", None, {item})
    ELSE LET old == Elems(self.items[self.head])
             s1 == [self EXCEPT !.items[self.head] = Some(item)]
         IN  IF s1.capacity = 0 THEN Outcome(s1, "Panic", None, old)
             ELSE LET s2 == [s1 EXCEPT !.tail = (s1.tail + 1) % s1.capacity]
                      s3 == [s2 EXCEPT !.size = s2.size + 1]
                  IN  IF dbg /\ ~(s2.size < s2.capacity)
                      THEN Outcome(s2, "Panic", None, old)
                      ELSE Outcome(s3, "Ok", None, old)

\* enqueue_or_overflow.  Err(OverflowError) carries no item: the item that
\* was passed by value goes out of scope at the return and is dropped.
enqueue_or_overflow(self, item, dbg) ==
    IF is_full(self) THEN Outcome(self, "Err", None, {item})
    ELSE IF self.tail \notin DOMAIN self.items
         THEN Outcome(self, "Panic", None, {item})
    ELSE LET old == Elems(self.items[self.tail])
             s1 == [self EXCEPT !.items[self.tail] = Some(item)]
         IN  IF s1.capacity = 0 THEN Outcome(s1, "Panic", None, old)
             ELSE LET s2 == [s1 EXCEPT !.tail = (s1.tail + 1) % s1.capacity]
                      s3 == [s2 EXCEPT !.size = s2.size + 1]
                  IN  IF dbg /\ ~(s2.size < s2.capacity)
                      THEN Outcome(s2, "Panic", None, old)
                      ELSE Outcome(s3, "Ok", None, old)

----------------------------------------------------------------------------
\* The caller.

\* One remembered call.
Call(op, arg, r, pre) ==
    [op |-> op, arg |-> arg, tag |-> r.tag, val |-> r.val,
     dropped |-> r.dropped, pre |-> pre]

Push(h, e) == IF Len(h) < HistLen THEN Append(h, e) ELSE Append(Tail(h), e)

\* A panic unwinds the caller: no call follows it.
Panicked == Len(hist) > 0 /\ hist[Len(hist)].tag = "Panic"

\* The run of enqueues since the buffer was last empty.  An enqueue into an
\* empty buffer starts a run; an enqueue that evicts, or that comes after a
\* dequeue of the run, ends it.
RunAfterEnqueue(pre, r, x) ==
    IF r.tag \in {"Panic", "Err"} THEN run
    ELSE IF pre.size = 0 THEN [batch |-> <<x>>, got |-> <<>>]
    ELSE IF run.batch # <<>> /\ run.got = <<>> /\ pre.size # pre.capacity
         THEN [run EXCEPT !.batch = Append(run.batch, x)]
    ELSE [batch |-> <<>>, got |-> <<>>]

\* The dequeues that follow a run, up to the length of the run.
RunAfterDequeue(r) ==
    IF r.tag = "Panic" THEN run
    ELSE IF Len(run.got) < Len(run.batch)
         THEN [run EXCEPT !.got = Append(run.got, r.val)]
    ELSE [batch |-> <<>>, got |-> <<>>]

\* The items passed to enqueue since the buffer was last empty.
WindowAfterEnqueue(pre, r, x) ==
    IF r.tag = "Panic" THEN window
    ELSE IF pre.size = 0 THEN <<x>>
    ELSE IF window # <<>> THEN Append(window, x)
    ELSE <<>>

\* The same three calls on a plain sequence q of at most c items.
FifoEnqueue(q, x, c) ==
    [q |-> Append(IF Len(q) = c THEN Tail(q) ELSE q, x),
     tag |-> "Unit", val |-> None]

FifoEnqueueOrOverflow(q, x, c) ==
    IF Len(q) = c THEN [q |-> q, tag |-> "Err", val |-> None]
    ELSE [q |-> Append(q, x), tag |-> "Ok", val |-> None]

FifoDequeue(q) ==
    IF q = <<>> THEN [q |-> q, tag |-> "None", val |-> None]
    ELSE [q |-> Tail(q), tag |-> "Some", val |-> Some(Head(q))]

Init ==
    /\ debug \in BOOLEAN
    /\ ctor \in {<<"new">>} \cup {<<"with_capacity", n>> : n \in 0..MaxCap}
    /\ b = IF ctor[1] = "new" THEN new ELSE with_capacity(ctor[2])
    /\ hist = <<>>
    /\ nextItem = 1
    /\ held = {}
    /\ discarded = {}
    /\ run = [batch |-> <<>>, got |-> <<>>]
    /\ window = <<>>
    /\ overflowed = FALSE
    /\ fifo = [q |-> <<>>, tag |-> "None", val |-> None]

Enqueue ==
    /\ ~Panicked
    /\ nextItem <= MaxItems
    /\ LET x == nextItem
           r == enqueue(b, x, debug)
       IN  /\ b' = r.self
           /\ hist' = Push(hist, Call("enqueue", x, r, b))
           /\ held' = held \cup Elems(r.val)
           /\ discarded' = discarded \cup r.dropped
           /\ run' = RunAfterEnqueue(b, r, x)
           /\ window' = WindowAfterEnqueue(b, r, x)
           /\ fifo' = IF b.capacity = 0 THEN fifo
                      ELSE FifoEnqueue(fifo.q, x, b.capacity)
    /\ UNCHANGED overflowed
    /\ nextItem' = nextItem + 1
    /\ UNCHANGED <<debug, ctor>>

EnqueueOrOverflow ==
    /\ ~Panicked
    /\ nextItem <= MaxItems
    /\ LET x == nextItem
           r == enqueue_or_overflow(b, x, debug)
       IN  /\ b' = r.self
           /\ hist' = Push(hist, Call("enqueue_or_overflow", x, r, b))
           /\ held' = held \cup Elems(r.val)
           /\ discarded' = discarded \cup r.dropped
           /\ run' = RunAfterEnqueue(b, r, x)
           /\ window' = IF r.tag = "Err" THEN window ELSE <<>>
           /\ overflowed' = IF r.tag = "Panic" THEN overflowed
                            ELSE r.tag = "Err"
           /\ fifo' = IF b.capacity = 0 THEN fifo
                      ELSE FifoEnqueueOrOverflow(fifo.q, x, b.capacity)
    /\ nextItem' = nextItem + 1
    /\ UNCHANGED <<debug, ctor>>

Dequeue ==
    /\ ~Panicked
    /\ LET r == dequeue(b, debug)
       IN  /\ b' = r.self
           /\ hist' = Push(hist, Call("dequeue", 0, r, b))
           /\ held' = held \cup Elems(r.val)
           /\ discarded' = discarded \cup r.dropped
           /\ run' = RunAfterDequeue(r)
           /\ window' = <<>>
           /\ overflowed' = FALSE
           /\ fifo' = IF b.capacity = 0 THEN fifo ELSE FifoDequeue(fifo.q)
    /\ UNCHANGED <<debug, ctor, nextItem>>

Next == Enqueue \/ EnqueueOrOverflow \/ Dequeue

Spec == Init /\ [][Next]_vars

----------------------------------------------------------------------------
\* Observations used by the properties.

\* The most recent call, and the one before it.
Last == hist[Len(hist)]
Before == hist[Len(hist) - 1]

\* The items the next k dequeue calls return, oldest first, stopping at the
\* first call that returns no item.
RECURSIVE Drain(_, _, _)
Drain(self, dbg, k) ==
    IF k = 0 THEN <<>>
    ELSE LET r == dequeue(self, dbg)
         IN  IF r.tag = "Some"
             THEN <<r.val[1]>> \o Drain(r.self, dbg, k - 1)
             ELSE <<>>

\* All live elements in FIFO order, as dequeue would hand them out.
Live(self) == Drain(self, debug, self.capacity + 1)

\* The slots that hold an element.
Occupied(self) == {i \in DOMAIN self.items : self.items[i] # None}

----------------------------------------------------------------------------
\* C1: after every call, on a buffer built by new() or with_capacity(n),
\* 0 <= size() <= capacity().
C1_SizeWithinCapacity ==
    /\ 0 <= size(b)
    /\ size(b) <= capacity(b)
    /\ capacity(b) = IF ctor[1] = "new" THEN 16 ELSE ctor[2]

\* An enqueue into a full buffer, after the indices have wrapped.
C1_Witness ==
    /\ Len(hist) > 0
    /\ Last.op = "enqueue"
    /\ Last.tag = "Unit"
    /\ Last.pre.size = Last.pre.capacity
    /\ Last.pre.head # 0
    /\ b.size = b.capacity

\* C2: FIFO order.  After N <= capacity enqueues (of either kind) into an
\* empty buffer, head at any index, with no eviction and no dequeue in
\* between, the following dequeues return Some(x1), ..., Some(xN) in the
\* order enqueued.
C2_FifoOrder ==
    /\ Len(run.batch) <= capacity(b)
    /\ Len(run.got) <= Len(run.batch)
    /\ \A i \in 1..Len(run.got) : run.got[i] = Some(run.batch[i])

\* A run that filled the buffer from a non-zero head and was drained whole.
C2_Witness ==
    /\ b.capacity >= 2
    /\ Len(run.batch) = b.capacity
    /\ Len(run.got) = Len(run.batch)
    /\ b.head # 0

\* C3: discard-oldest.  enqueue(x) on a full buffer (capacity >= 1) holding
\* e1..eC leaves e2..eC, x; exactly e1 is dropped, and no dequeue returns,
\* and no slot holds, an item that was dropped.
C3_DiscardOldest ==
    /\ (/\ Len(hist) > 0
        /\ Last.op = "enqueue"
        /\ Last.pre.capacity >= 1
        /\ Last.pre.size = Last.pre.capacity)
       => /\ Last.tag = "Unit"
          /\ Len(Live(Last.pre)) = Last.pre.capacity
          /\ Live(b) = Append(Tail(Live(Last.pre)), Last.arg)
          /\ Last.dropped = {Head(Live(Last.pre))}
    /\ (Len(hist) > 0 /\ Last.op = "dequeue")
       => Elems(Last.val) \cap discarded = {}
    /\ \A i \in Occupied(b) : Elems(b.items[i]) \cap discarded = {}

\* An evicting enqueue into a buffer of at least two slots, followed by a
\* dequeue that returns the element after the evicted one.
C3_Witness ==
    /\ Len(hist) >= 2
    /\ Before.op = "enqueue"
    /\ Before.pre.capacity >= 2
    /\ Before.pre.size = Before.pre.capacity
    /\ Last.op = "dequeue"
    /\ Last.tag = "Some"
    /\ Before.dropped # {}

\* C4: reject.  enqueue_or_overflow on a full buffer returns
\* Err(OverflowError) and leaves head, tail, size, capacity and every slot
\* as they were.
C4_RejectWhenFull ==
    (/\ Len(hist) > 0
     /\ Last.op = "enqueue_or_overflow"
     /\ Last.pre.size = Last.pre.capacity)
    => /\ Last.tag = "Err"
       /\ b = Last.pre

\* A rejected call on a full buffer of at least two slots.
C4_Witness ==
    /\ Len(hist) > 0
    /\ Last.op = "enqueue_or_overflow"
    /\ Last.pre.size = Last.pre.capacity
    /\ Last.pre.capacity >= 2
    /\ Last.tag = "Err"

\* C5: when enqueue_or_overflow fails with overflow, the caller still holds
\* the rejected item after the call.
C5_RejectedItemReturned ==
    (/\ Len(hist) > 0
     /\ Last.op = "enqueue_or_overflow"
     /\ Last.tag = "Err")
    => /\ Last.arg \in held
       /\ Last.arg \notin discarded

\* C6: dequeue on an empty buffer returns None and leaves head, tail, size,
\* capacity and every slot as they were; repeated, size stays 0.
C6_DequeueOnEmpty ==
    (/\ Len(hist) > 0
     /\ Last.op = "dequeue"
     /\ Last.pre.size = 0)
    => /\ Last.tag = "None"
       /\ Last.val = None
       /\ b = Last.pre
       /\ b.size = 0

\* Two dequeues in a row on a buffer that was emptied with head off zero.
C6_Witness ==
    /\ Len(hist) >= 2
    /\ Before.op = "dequeue"
    /\ Before.pre.size = 0
    /\ Last.op = "dequeue"
    /\ Last.pre.size = 0
    /\ Last.tag = "None"
    /\ b.head # 0

\* C7: on a buffer built with with_capacity(0), enqueue(item) does not
\* fault and does not index the backing store; the buffer stays empty and
\* full.
C7_ZeroCapacityGuarded ==
    (/\ Len(hist) > 0
     /\ Last.op = "enqueue"
     /\ Last.pre.capacity = 0)
    => /\ Last.tag # "Panic"
       /\ b.size = 0
       /\ b.capacity = 0

\* C8: after every call is_empty() = (size() = 0) and
\* is_full() = (size() = capacity()); is_empty() holds exactly when no slot
\* holds an element and is_full() exactly when every slot holds one.
C8_EmptyFullAgree ==
    /\ is_empty(b) <=> (size(b) = 0)
    /\ is_full(b) <=> (size(b) = capacity(b))
    /\ is_empty(b) <=> (Occupied(b) = {})
    /\ is_full(b) <=> (Occupied(b) = DOMAIN b.items)

\* A full buffer whose indices have wrapped.
C8_Witness ==
    /\ Len(hist) > 0
    /\ b.capacity >= 2
    /\ b.size = b.capacity
    /\ Occupied(b) = DOMAIN b.items
    /\ b.head # 0

\* C9: round trip.  On an empty buffer of capacity >= 1, whatever head and
\* tail are, enqueue(x) followed by dequeue() returns Some(x) and leaves
\* the buffer empty.
C9_RoundTrip ==
    (/\ Len(hist) >= 2
     /\ Before.op = "enqueue"
     /\ Before.pre.size = 0
     /\ Before.pre.capacity >= 1
     /\ Last.op = "dequeue")
    => /\ Last.tag = "Some"
       /\ Last.val = Some(Before.arg)
       /\ b.size = 0
       /\ Occupied(b) = {}

\* A round trip that starts with head and tail off zero.
C9_Witness ==
    /\ Len(hist) >= 2
    /\ Before.op = "enqueue"
    /\ Before.pre.size = 0
    /\ Before.pre.head # 0
    /\ Last.op = "dequeue"
    /\ Last.val = Some(Before.arg)

\* C10: construction.  with_capacity(n) gives capacity n, exactly n slots,
\* all empty, head = tail = size = 0, is_empty() and, for n >= 1, not
\* is_full(); new() gives the same as with_capacity(16).
C10_Construction ==
    (hist = <<>>)
    => LET n == IF ctor[1] = "new" THEN 16 ELSE ctor[2]
       IN  /\ capacity(b) = n
           /\ DOMAIN b.items = 0..(n - 1)
           /\ \A i \in DOMAIN b.items : b.items[i] = None
           /\ b.head = 0
           /\ b.tail = 0
           /\ size(b) = 0
           /\ is_empty(b)
           /\ (n >= 1 => ~is_full(b))
           /\ (n = 0 => is_full(b))

\* The buffer new() returns, before any call.
C10_Witness ==
    /\ hist = <<>>
    /\ ctor = <<"new">>
    /\ Cardinality(DOMAIN b.items) = 16

\* C11: size step rule, capacity >= 1.  enqueue takes size to
\* min(size + 1, capacity); a successful enqueue_or_overflow adds exactly 1;
\* dequeue on a non-empty buffer subtracts exactly 1.  Hence a run of
\* enqueues from empty has sizes 1, 2, ..., is_full() exactly when the run
\* has capacity items, and the dequeues after it count size back down.
C11_SizeStep ==
    /\ (Len(hist) > 0 /\ Last.pre.capacity >= 1)
       => /\ (Last.op = "enqueue")
             => /\ Last.tag = "Unit"
                /\ (Last.pre.size # Last.pre.capacity
                    => b.size = Last.pre.size + 1)
                /\ (Last.pre.size = Last.pre.capacity
                    => b.size = Last.pre.size)
          /\ (Last.op = "enqueue_or_overflow" /\ Last.tag = "Ok")
             => b.size = Last.pre.size + 1
          /\ (Last.op = "dequeue" /\ Last.pre.size # 0)
             => b.size = Last.pre.size - 1
    /\ (b.capacity >= 1 /\ run.batch # <<>>)
       => /\ size(b) = Len(run.batch) - Len(run.got)
          /\ (run.got = <<>>
              => (is_full(b) <=> Len(run.batch) = capacity(b)))

\* A buffer filled from empty to capacity and then dequeued down to its
\* last element.
C11_Witness ==
    /\ b.capacity >= 2
    /\ Len(run.batch) = b.capacity
    /\ Len(run.got) = b.capacity - 1
    /\ Last.op = "dequeue"
    /\ b.size = 1

\* C12: sliding window.  After K >= capacity items were passed to enqueue
\* on an empty buffer with no dequeue in between, size equals capacity and
\* draining with dequeue returns the last `capacity` items in enqueue
\* order.
C12_SlidingWindow ==
    (b.capacity >= 1 /\ Len(window) >= b.capacity)
    => /\ size(b) = capacity(b)
       /\ Live(b) = SubSeq(window, Len(window) - b.capacity + 1,
                           Len(window))

\* Two evictions behind, on a buffer of at least two slots.
C12_Witness ==
    /\ b.capacity >= 2
    /\ Len(window) >= b.capacity + 2
    /\ Last.op = "enqueue"

\* C13: enqueue_or_overflow returns Err(OverflowError) exactly when
\* size = capacity before the call and Ok(()) otherwise; for capacity >= 1
\* enqueue and dequeue never fault.
C13_OnlyOverflowFails ==
    (Len(hist) > 0)
    => /\ (Last.op = "enqueue_or_overflow")
          => /\ Last.tag \in {"Ok", "Err"}
             /\ (Last.tag = "Err" <=> Last.pre.size = Last.pre.capacity)
       /\ (Last.op = "enqueue" /\ Last.pre.capacity >= 1)
          => Last.tag = "Unit"
       /\ (Last.op = "dequeue" /\ Last.pre.capacity >= 1)
          => /\ Last.tag \in {"Some", "None"}
             /\ (Last.tag = "None" <=> Last.pre.size = 0)

\* An accepted item that fills the buffer, then a rejected one.
C13_Witness ==
    /\ Len(hist) >= 2
    /\ b.capacity >= 2
    /\ Before.op = "enqueue_or_overflow"
    /\ Before.tag = "Ok"
    /\ Last.op = "enqueue_or_overflow"
    /\ Last.tag = "Err"

\* The slots of the live range: head, head + 1, ... (modulo capacity),
\* size of them.
LiveSlots(self) ==
    {(self.head + i) % self.capacity : i \in 0..(self.size - 1)}

\* C14: slot layout, capacity >= 1.  For 0 <= i < size the slot at
\* (head + i) mod capacity holds the i-th oldest live element, every other
\* slot holds none, and the slot dequeue reads on a non-empty buffer is
\* occupied (debug_assert!(item.is_some()) never fires).
C14_SlotLayout ==
    (b.capacity >= 1)
    => /\ Len(fifo.q) = b.size
       /\ \A i \in 0..(b.size - 1) :
             /\ (b.head + i) % b.capacity \in DOMAIN b.items
             /\ b.items[(b.head + i) % b.capacity] = Some(fifo.q[i + 1])
       /\ \A j \in DOMAIN b.items \ LiveSlots(b) : b.items[j] = None
       /\ (Len(hist) > 0 /\ Last.op = "dequeue" /\ Last.pre.size > 0)
          => /\ Last.tag = "Some"
             /\ Last.val = Last.pre.items[Last.pre.head]
       /\ (Len(hist) > 0) => Last.tag # "Panic"

\* A live range that wraps past the end of the store, after a dequeue.
C14_Witness ==
    /\ Len(hist) > 0
    /\ Last.op = "dequeue"
    /\ Last.tag = "Some"
    /\ b.size >= 2
    /\ b.head + b.size > b.capacity

\* C15: index bounds, capacity >= 1.  0 <= head < capacity and
\* 0 <= tail < capacity in every reachable state, so items[head] and
\* items[tail] are in bounds and no call faults.
C15_IndexBounds ==
    (b.capacity >= 1)
    => /\ 0 <= b.head /\ b.head < b.capacity
       /\ 0 <= b.tail /\ b.tail < b.capacity
       /\ b.head \in DOMAIN b.items
       /\ b.tail \in DOMAIN b.items
       /\ (Len(hist) > 0) => Last.tag # "Panic"

\* tail wraps from the last slot to slot 0 while head is off zero.
C15_Witness ==
    /\ Len(hist) > 0
    /\ b.capacity >= 2
    /\ Last.op = "enqueue"
    /\ Last.pre.tail = b.capacity - 1
    /\ b.tail = 0
    /\ b.head # 0

\* C16: the size counter equals the number of slots that hold an element;
\* a store never overwrites an occupied slot: the only item an enqueue
\* drops is the one it evicted from head of a full buffer.
C16_SizeCountsSlots ==
    /\ b.size = Cardinality(Occupied(b))
    /\ (Len(hist) > 0 /\ Last.op = "enqueue" /\ Last.tag = "Unit")
       => Last.dropped = IF Last.pre.size = Last.pre.capacity
                         THEN Elems(Last.pre.items[Last.pre.head])
                         ELSE {}
    /\ (Len(hist) > 0 /\ Last.op = "enqueue_or_overflow"
        /\ Last.tag = "Ok")
       => Last.dropped = {}

\* An item stored into the slot a dequeue has just cleared, filling the
\* buffer again.
C16_Witness ==
    /\ Len(hist) >= 2
    /\ b.capacity >= 2
    /\ Before.op = "dequeue"
    /\ Before.pre.size = b.capacity
    /\ Last.op = "enqueue_or_overflow"
    /\ Last.tag = "Ok"
    /\ b.size = b.capacity
    /\ Cardinality(Occupied(b)) = b.capacity

\* C17: eviction is an explicit dequeue.  On a full buffer (capacity >= 1)
\* enqueue(x) ends in the same head, tail, size and slots as dequeue()
\* followed by a successful enqueue_or_overflow(x); on a buffer that is not
\* full enqueue(x) and enqueue_or_overflow(x) end in the same state.
C17_EvictionIsDequeue ==
    /\ (Len(hist) > 0 /\ Last.op = "enqueue" /\ Last.pre.capacity >= 1)
       => IF Last.pre.size = Last.pre.capacity
          THEN LET d == dequeue(Last.pre, debug)
                   e == enqueue_or_overflow(d.self, Last.arg, debug)
               IN  /\ d.tag = "Some"
                   /\ e.tag = "Ok"
                   /\ b = e.self
          ELSE LET e == enqueue_or_overflow(Last.pre, Last.arg, debug)
               IN  /\ e.tag = "Ok"
                   /\ b = e.self
    /\ (/\ Len(hist) > 0
        /\ Last.op = "enqueue_or_overflow"
        /\ Last.pre.capacity >= 1
        /\ Last.pre.size # Last.pre.capacity)
       => /\ Last.tag = "Ok"
          /\ b = enqueue(Last.pre, Last.arg, debug).self
    /\ (/\ Len(hist) >= 2
        /\ Before.op = "dequeue"
        /\ Before.pre.capacity >= 1
        /\ Before.pre.size = Before.pre.capacity
        /\ Last.op = "enqueue_or_overflow")
       => /\ Last.tag = "Ok"
          /\ b = enqueue(Before.pre, Last.arg, debug).self

\* An evicting enqueue on a full buffer whose head is off zero, matched by
\* the explicit dequeue and store.
C17_Witness ==
    /\ Len(hist) > 0
    /\ Last.op = "enqueue"
    /\ Last.pre.capacity >= 2
    /\ Last.pre.size = Last.pre.capacity
    /\ Last.pre.head # 0
    /\ b = enqueue_or_overflow(dequeue(Last.pre, debug).self, Last.arg,
                               debug).self

\* C18: after enqueue_or_overflow has failed with overflow, every further
\* enqueue_or_overflow fails as long as no dequeue is called; and
\* (capacity >= 1) after one successful dequeue the very next
\* enqueue_or_overflow succeeds.
C18_OverflowUntilDequeue ==
    [][/\ (/\ overflowed
           /\ nextItem' # nextItem
           /\ Last'.op = "enqueue_or_overflow")
          => Last'.tag = "Err"
       /\ (/\ Len(hist') >= 2
           /\ b'.capacity >= 1
           /\ Before'.op = "dequeue"
           /\ Before'.tag = "Some"
           /\ Last'.op = "enqueue_or_overflow")
          => Last'.tag = "Ok"]_vars

\* Two overflow failures in a row on a buffer of at least two slots.
C18_Witness ==
    /\ Len(hist) >= 2
    /\ b.capacity >= 2
    /\ Before.op = "enqueue_or_overflow"
    /\ Before.tag = "Err"
    /\ Last.op = "enqueue_or_overflow"
    /\ Last.tag = "Err"
    /\ overflowed

\* C19: index relation, capacity >= 1.  tail = (head + size) mod capacity;
\* hence head = tail exactly when the buffer is empty or full, and the slot
\* at tail is empty whenever the buffer is not full.
C19_TailIsHeadPlusSize ==
    (b.capacity >= 1)
    => /\ b.tail = (b.head + b.size) % b.capacity
       /\ (b.head = b.tail) <=> (b.size = 0 \/ b.size = b.capacity)
       /\ (b.size # b.capacity)
          => (b.tail \in DOMAIN b.items /\ b.items[b.tail] = None)

\* A partly filled buffer whose tail has wrapped below head.
C19_Witness ==
    /\ Len(hist) > 0
    /\ b.tail < b.head
    /\ b.size >= 2
    /\ b.size < b.capacity
    /\ Last.op \in {"enqueue", "enqueue_or_overflow"}

\* C20: refinement of a bounded FIFO queue, capacity >= 1.  Run side by
\* side with the sequence q, every call returns the same result on both,
\* size() = Len(q) after every call, and the live elements of the buffer
\* are q: none duplicated, fabricated or reordered.
C20_RefinesFifo ==
    (b.capacity >= 1)
    => /\ size(b) = Len(fifo.q)
       /\ (Len(hist) > 0)
          => (Last.tag = fifo.tag /\ Last.val = fifo.val)
       /\ Live(b) = fifo.q

\* A rejected item, then a dequeue that returns the oldest element on both
\* sides.
C20_Witness ==
    /\ Len(hist) >= 2
    /\ b.capacity >= 2
    /\ Before.op = "enqueue_or_overflow"
    /\ Before.tag = "Err"
    /\ Last.op = "dequeue"
    /\ Last.tag = "Some"
    /\ Last.val = fifo.val
    /\ Last.pre.head # 0

====
